---- MODULE Spec2Model ----
(***************************************************************************)
(* Order Transition Service (estado_pedidos.py): the four guarded          *)
(* transition handlers pagado -> cocina -> empaquetamiento -> delivery ->  *)
(* entregado, the callback handler confirmar_paso and the request          *)
(* normalizer parse_event, over the four DynamoDB tables PEDIDOS, COCINA,  *)
(* DESPACHADOR and DELIVERY and the Step Functions client.                 *)
(***************************************************************************)
EXTENDS Integers, Sequences, FiniteSets, TLC

VARIABLES
    pedidos,      \* table PEDIDOS: <<tenant_id, id>> -> item (attribute -> value)
    cocina,       \* table COCINA: id_pedido -> item
    despachador,  \* table DESPACHADOR: id_pedido -> item
    delivery,     \* table DELIVERY: id_pedido -> item
    llamada,      \* the last handler invocation: what it was asked and what it answered
    evento,       \* the raw request envelope handed to parse_event (SpecParse)
    normalizado,  \* what parse_event returned for it (SpecParse)
    hilos,        \* the invocations in flight, one store operation at a time
    enviados,     \* the task tokens passed to send_task_success, in order
    orquestador   \* the Step Functions execution that drives one order

vars == <<pedidos, cocina, despachador, delivery, llamada, evento, normalizado,
          hilos, enviados, orquestador>>

tablas == <<pedidos, cocina, despachador, delivery>>

-----------------------------------------------------------------------------
(* Python values.  A value is a record tagged by its Python type; the       *)
(* values stored in table items are the bare strings of "str" values, with  *)
(* None standing for Python's None.                                         *)

None == "<None>"

PyNone == [t |-> "None"]

PyStr(s) == [t |-> "str", s |-> s]

\* a str holding serialized text, kept as its sequence of lexical tokens
PyTexto(toks) == [t |-> "texto", toks |-> toks]

PyDict(d) == [t |-> "dict", d |-> d]

\* a JSON array; elems is the number of its elements
PyList(n) == [t |-> "list", elems |-> n]

PyNum(n) == [t |-> "num", n |-> n]

\* an uncaught exception leaving the called function
Raise == [t |-> "raise"]

\* isinstance(v, str)
IsStr(v) == v.t \in {"str", "texto"}

\* isinstance(v, dict)
IsDict(v) == v.t = "dict"

\* bool(v)
Truthy(v) ==
    CASE v.t = "None"  -> FALSE
      [] v.t = "str"   -> v.s # ""
      [] v.t = "texto" -> Len(v.toks) > 0
      [] v.t = "dict"  -> DOMAIN v.d # {}
      [] v.t = "list"  -> v.elems > 0
      [] v.t = "num"   -> v.n # 0
      [] OTHER         -> FALSE

\* a or b
PyOr(a, b) == IF Truthy(a) THEN a ELSE b

\* d.get(k) on a dict d (a function from keys to values)
Get(d, k) == IF k \in DOMAIN d THEN d[k] ELSE PyNone

\* d[k] = v
Put(d, k, v) == [x \in DOMAIN d \cup {k} |-> IF x = k THEN v ELSE d[x]]

\* the dict without key k
Quitar(d, k) == [x \in DOMAIN d \ {k} |-> d[x]]

Vacio == [x \in {} |-> PyNone]

-----------------------------------------------------------------------------
(* json.loads on the token sequence of a text.  Texts are flat: the values  *)
(* of an object or array are string, number or null literals.               *)

Puntuacion == {"{", "}", "[", "]", ":", ","}

\* a token that no JSON literal starts with
Basura == "?"

Numeros == {"0", "7"}

IsStringTok(tok) == tok \notin Puntuacion \cup Numeros \cup {Basura, "null"}

IsValueTok(tok) == tok \notin Puntuacion \cup {Basura}

ValueOfTok(tok) ==
    CASE tok = "null" -> PyNone
      [] tok = "0"    -> PyNum(0)
      [] tok = "7"    -> PyNum(7)
      [] OTHER        -> PyStr(tok)

RECURSIVE ParseMembers(_, _)
\* the members k : v (, k : v)* of an object; a repeated key keeps its last value
ParseMembers(toks, acc) ==
    IF Len(toks) < 3 \/ ~IsStringTok(toks[1]) \/ toks[2] # ":" \/ ~IsValueTok(toks[3])
    THEN Raise
    ELSE LET acc2 == Put(acc, toks[1], ValueOfTok(toks[3]))
         IN  IF Len(toks) = 3 THEN PyDict(acc2)
             ELSE IF toks[4] # "," THEN Raise
             ELSE ParseMembers(SubSeq(toks, 5, Len(toks)), acc2)

RECURSIVE ParseElements(_, _)
\* the elements v (, v)* of an array
ParseElements(toks, n) ==
    IF Len(toks) < 1 \/ ~IsValueTok(toks[1]) THEN Raise
    ELSE IF Len(toks) = 1 THEN PyList(n + 1)
    ELSE IF toks[2] # "," THEN Raise
    ELSE ParseElements(SubSeq(toks, 3, Len(toks)), n + 1)

JsonLoads(v) ==
    IF v.t # "texto" \/ Len(v.toks) = 0 THEN Raise
    ELSE LET toks  == v.toks
             n     == Len(toks)
             inner == SubSeq(toks, 2, n - 1)
         IN  IF n = 1 THEN (IF IsValueTok(toks[1]) THEN ValueOfTok(toks[1]) ELSE Raise)
             ELSE IF toks[1] = "{" /\ toks[n] = "}"
                  THEN (IF n = 2 THEN PyDict(Vacio) ELSE ParseMembers(inner, Vacio))
             ELSE IF toks[1] = "[" /\ toks[n] = "]"
                  THEN (IF n = 2 THEN PyList(0) ELSE ParseElements(inner, 0))
             ELSE Raise

-----------------------------------------------------------------------------
(* parse_event *)

\* body.update(path_params): the path value wins
SetDefaultAll_PathWins(body, path_params) ==
    [k \in DOMAIN body \cup DOMAIN path_params |->
        IF k \in DOMAIN path_params THEN path_params[k] ELSE body[k]]

\* for k, v in path_params.items(): body.setdefault(k, v)
SetDefaultAll(body, path_params) ==
    [k \in DOMAIN body \cup DOMAIN path_params |->
        IF k \in DOMAIN body THEN body[k] ELSE path_params[k]]

parse_event(event) ==
    IF /\ "taskToken" \in DOMAIN event
       /\ "input" \in DOMAIN event
       /\ IsDict(event["input"])
    THEN PyDict(Put(event["input"].d, "taskToken", event["taskToken"]))
    ELSE IF "body" \in DOMAIN event /\ IsStr(event["body"])
    THEN LET loaded      == JsonLoads(event["body"])
             body        == IF loaded.t = "raise" THEN PyDict(Vacio) ELSE loaded
             path_params == PyOr(Get(event, "pathParameters"), PyDict(Vacio))
         IN  IF IsDict(path_params) /\ DOMAIN path_params.d # {}
             THEN (IF IsDict(body)
                   THEN PyDict(SetDefaultAll(body.d, path_params.d))
                   ELSE Raise)    \* AttributeError: no setdefault on a non-dict
             ELSE body
    ELSE PyDict(event)

-----------------------------------------------------------------------------
(* The store: boto3 Table operations on a table held as a function from    *)
(* keys to items, an item being a function from attribute names to values. *)

\* the value of a "str" as it is stored in an item or recorded
Bare(v) == IF v.t = "str" THEN v.s ELSE IF v.t = "None" THEN None ELSE "<otro>"

\* item.get(a) on a stored item
ItemGet(item, a) == IF a \in DOMAIN item THEN item[a] ELSE None

\* get_item(Key=key).get("Item")
HayItem(tabla, key) == key \in DOMAIN tabla

\* put_item(Item=item): the item replaces whatever the key held
put_item(tabla, key, item) ==
    [k \in DOMAIN tabla \cup {key} |-> IF k = key THEN item ELSE tabla[k]]

\* update_item(Key=key, UpdateExpression="SET ..."): sets the attributes of
\* `cambios` on the item, creating the item from `llave` when the key held none
update_item_set(tabla, key, llave, cambios) ==
    LET viejo == IF key \in DOMAIN tabla THEN tabla[key] ELSE llave
        nuevo == [a \in DOMAIN viejo \cup DOMAIN cambios |->
                     IF a \in DOMAIN cambios THEN cambios[a] ELSE viejo[a]]
    IN  put_item(tabla, key, nuevo)

\* an update that removes nothing
update_item_remove_Nada(tabla, key, llave, campo) == tabla

\* update_item(Key=key, UpdateExpression="REMOVE campo")
update_item_remove(tabla, key, llave, campo) ==
    LET viejo == IF key \in DOMAIN tabla THEN tabla[key] ELSE llave
    IN  put_item(tabla, key, [a \in DOMAIN viejo \ {campo} |-> viejo[a]])

LlavePedido(tenant_id, id_pedido) ==
    [a \in {"tenant_id", "id"} |-> IF a = "tenant_id" THEN tenant_id ELSE id_pedido]

LlaveEtapa(id_pedido) == [a \in {"id_pedido"} |-> id_pedido]

\* the four tables as one value
DB == [pedidos |-> pedidos, cocina |-> cocina,
       despachador |-> despachador, delivery |-> delivery]

-----------------------------------------------------------------------------
(* Responses and the outcome of one invocation *)

MsgFaltan        == "Faltan tenant_id o id_pedido en el event"
MsgNoEncontrado  == "Pedido no encontrado"
MsgEstado        == "Estado actual del pedido no es el esperado"
MsgFaltanPaso    == "Faltan tenant_id, id_pedido o paso"
MsgPasoNoSoportado == "Paso no soportado"
MsgSinToken      == "No se encontro el token para este pedido"
MsgOk            == "ok"
MsgExcepcion     == "excepcion"

\* what an invocation did: the tables it leaves, its response, the number of
\* get_item reads it made and the tokens it sent to send_task_success
Resultado(db, statusCode, mensaje, lecturas, senales) ==
    [db |-> db, statusCode |-> statusCode, mensaje |-> mensaje,
     lecturas |-> lecturas, senales |-> senales]

\* an invocation that ended in an uncaught exception: no response, statusCode 0
Excepcion(db, lecturas) == Resultado(db, 0, MsgExcepcion, lecturas, <<>>)

-----------------------------------------------------------------------------
(* validar_pedido_y_estado *)

\* event.get("id_pedido") or event.get("id")
IdPedidoDe(d) == PyOr(Get(d, "id_pedido"), Get(d, "id"))

\* the Guard without the comparison of estado_pedido
validar_pedido_y_estado_SinEstado(tabla_pedidos, event, estado_esperado) ==
    IF ~IsDict(event) THEN [paso |-> "raise", lecturas |-> 0]
    ELSE
    LET tenant_id == Get(event.d, "tenant_id")
        id_pedido == IdPedidoDe(event.d)
        key       == <<Bare(tenant_id), Bare(id_pedido)>>
    IN  IF ~Truthy(tenant_id) \/ ~Truthy(id_pedido)
        THEN [paso |-> "error", statusCode |-> 400, mensaje |-> MsgFaltan, lecturas |-> 0]
        ELSE IF tenant_id.t # "str" \/ id_pedido.t # "str"
        THEN [paso |-> "raise", lecturas |-> 1]   \* the key is no string: get_item fails
        ELSE IF ~HayItem(tabla_pedidos, key)
        THEN [paso |-> "error", statusCode |-> 404, mensaje |-> MsgNoEncontrado,
              lecturas |-> 1]
        ELSE IF FALSE
        THEN [paso |-> "error", statusCode |-> 400, mensaje |-> MsgEstado, lecturas |-> 1]
        ELSE [paso |-> "ok", key |-> key, lecturas |-> 1]

\* the Guard without the check for a missing tenant_id or order id
validar_pedido_y_estado_SinFaltantes(tabla_pedidos, event, estado_esperado) ==
    IF ~IsDict(event) THEN [paso |-> "raise", lecturas |-> 0]
    ELSE
    LET tenant_id == Get(event.d, "tenant_id")
        id_pedido == IdPedidoDe(event.d)
        key       == <<Bare(tenant_id), Bare(id_pedido)>>
    IN  IF FALSE
        THEN [paso |-> "error", statusCode |-> 400, mensaje |-> MsgFaltan, lecturas |-> 0]
        ELSE IF tenant_id.t \notin {"str", "None"} \/ id_pedido.t \notin {"str", "None"}
        THEN [paso |-> "raise", lecturas |-> 1]   \* the key is no string: get_item fails
        ELSE IF ~HayItem(tabla_pedidos, key)
        THEN [paso |-> "error", statusCode |-> 404, mensaje |-> MsgNoEncontrado,
              lecturas |-> 1]
        ELSE IF ItemGet(tabla_pedidos[key], "estado_pedido") # estado_esperado
        THEN [paso |-> "error", statusCode |-> 400, mensaje |-> MsgEstado, lecturas |-> 1]
        ELSE [paso |-> "ok", key |-> key, lecturas |-> 1]

\* the Guard letting a delivered order through again
validar_pedido_y_estado_Reabre(tabla_pedidos, event, estado_esperado) ==
    IF ~IsDict(event) THEN [paso |-> "raise", lecturas |-> 0]
    ELSE
    LET tenant_id == Get(event.d, "tenant_id")
        id_pedido == IdPedidoDe(event.d)
        key       == <<Bare(tenant_id), Bare(id_pedido)>>
    IN  IF ~Truthy(tenant_id) \/ ~Truthy(id_pedido)
        THEN [paso |-> "error", statusCode |-> 400, mensaje |-> MsgFaltan, lecturas |-> 0]
        ELSE IF tenant_id.t # "str" \/ id_pedido.t # "str"
        THEN [paso |-> "raise", lecturas |-> 1]   \* the key is no string: get_item fails
        ELSE IF ~HayItem(tabla_pedidos, key)
        THEN [paso |-> "error", statusCode |-> 404, mensaje |-> MsgNoEncontrado,
              lecturas |-> 1]
        ELSE IF ItemGet(tabla_pedidos[key], "estado_pedido") \notin {estado_esperado, "entregado"}
        THEN [paso |-> "error", statusCode |-> 400, mensaje |-> MsgEstado, lecturas |-> 1]
        ELSE [paso |-> "ok", key |-> key, lecturas |-> 1]

\* the outcome of the Guard: paso = "ok" with the order's key, or the error
\* response it returns, or "raise"
validar_pedido_y_estado(tabla_pedidos, event, estado_esperado) ==
    IF ~IsDict(event) THEN [paso |-> "raise", lecturas |-> 0]
    ELSE
    LET tenant_id == Get(event.d, "tenant_id")
        id_pedido == IdPedidoDe(event.d)
        key       == <<Bare(tenant_id), Bare(id_pedido)>>
    IN  IF ~Truthy(tenant_id) \/ ~Truthy(id_pedido)
        THEN [paso |-> "error", statusCode |-> 400, mensaje |-> MsgFaltan, lecturas |-> 0]
        ELSE IF tenant_id.t # "str" \/ id_pedido.t # "str"
        THEN [paso |-> "raise", lecturas |-> 1]   \* the key is no string: get_item fails
        ELSE IF ~HayItem(tabla_pedidos, key)
        THEN [paso |-> "error", statusCode |-> 404, mensaje |-> MsgNoEncontrado,
              lecturas |-> 1]
        ELSE IF ItemGet(tabla_pedidos[key], "estado_pedido") # estado_esperado
        THEN [paso |-> "error", statusCode |-> 400, mensaje |-> MsgEstado, lecturas |-> 1]
        ELSE [paso |-> "ok", key |-> key, lecturas |-> 1]

-----------------------------------------------------------------------------
(* The store writes of the transition handlers, one operator per write *)

\* v or "default", as stored
BareOr(v, default) == IF Truthy(v) THEN Bare(v) ELSE default

\* put_item of a new COCINA / DESPACHADOR record
CrearEtapa(tabla, id_pedido, id_empleado, ahora) ==
    put_item(tabla, id_pedido,
        [a \in {"id_pedido", "id_empleado", "hora_comienzo", "hora_fin", "status"} |->
            CASE a = "id_pedido"     -> id_pedido
              [] a = "id_empleado"   -> BareOr(id_empleado, "no_asignado")
              [] a = "hora_comienzo" -> ahora
              [] a = "hora_fin"      -> None
              [] OTHER               -> "cocinando"])

\* update_item SET hora_fin = now, status = 'terminado' on COCINA / DESPACHADOR
TerminarEtapa(tabla, id_pedido, ahora) ==
    update_item_set(tabla, id_pedido, LlaveEtapa(id_pedido),
        [a \in {"hora_fin", "status"} |-> IF a = "hora_fin" THEN ahora ELSE "terminado"])

\* put_item of a new DELIVERY record
CrearDelivery(tabla, tenant_id, id_pedido, event) ==
    put_item(tabla, id_pedido,
        [a \in {"id_pedido", "tenant_id", "repartidor", "id_repartidor",
                "origen", "destino", "status"} |->
            CASE a = "id_pedido"     -> id_pedido
              [] a = "tenant_id"     -> tenant_id
              [] a = "repartidor"    -> BareOr(Get(event, "repartidor"), "no_asignado")
              [] a = "id_repartidor" -> BareOr(Get(event, "id_repartidor"), "no_asignado")
              [] a = "origen"        -> BareOr(Get(event, "origen"), "no_definido")
              [] a = "destino"       -> BareOr(Get(event, "destino"), "no_definido")
              [] OTHER               -> "en camino"])

\* update_item SET status = 'cumplido' on DELIVERY
CumplirDelivery(tabla, id_pedido) ==
    update_item_set(tabla, id_pedido, LlaveEtapa(id_pedido),
        [a \in {"status"} |-> "cumplido"])

\* the order update that sets the token field but not estado_pedido
ActualizarPedido_SinEstado(tabla, key, estado, campo_token, task_token) ==
    update_item_set(tabla, key, LlavePedido(key[1], key[2]),
        IF campo_token # None /\ Truthy(task_token)
        THEN [a \in {campo_token} |-> Bare(task_token)]
        ELSE [a \in {} |-> None])

\* the order update that stores every token under task_token_cocina
ActualizarPedido_CampoUnico(tabla, key, estado, campo_token, task_token) ==
    update_item_set(tabla, key, LlavePedido(key[1], key[2]),
        IF campo_token # None /\ Truthy(task_token)
        THEN [a \in {"estado_pedido", "task_token_cocina"} |->
                 IF a = "estado_pedido" THEN estado ELSE Bare(task_token)]
        ELSE [a \in {"estado_pedido"} |-> estado])

\* update_item SET estado_pedido = estado [, campo_token = task_token] on PEDIDOS;
\* campo_token is None for the handler that stores no token
ActualizarPedido(tabla, key, estado, campo_token, task_token) ==
    update_item_set(tabla, key, LlavePedido(key[1], key[2]),
        IF campo_token # None /\ Truthy(task_token)
        THEN [a \in {"estado_pedido", campo_token} |->
                 IF a = "estado_pedido" THEN estado ELSE Bare(task_token)]
        ELSE [a \in {"estado_pedido"} |-> estado])

-----------------------------------------------------------------------------
(* The four transition handlers.  db holds the tables before the call,     *)
(* event is the raw envelope, ahora1 and ahora2 are what the successive    *)
(* calls of obtener_timestamp_iso return.                                  *)

\* the response of a handler whose Guard did not pass
RespuestaGuard(db, v) ==
    IF v.paso = "raise" THEN Excepcion(db, v.lecturas)
    ELSE Resultado(db, v.statusCode, v.mensaje, v.lecturas, <<>>)

pagado_a_cocina(db, event, ahora1, ahora2) ==
    LET ev == parse_event(event)
        v  == validar_pedido_y_estado(db.pedidos, ev, "pagado")
    IN  IF v.paso # "ok" THEN RespuestaGuard(db, v)
        ELSE
        LET id_pedido == ItemGet(db.pedidos[v.key], "id")
            cocina1   == CrearEtapa(db.cocina, id_pedido, Get(ev.d, "id_empleado"), ahora1)
            pedidos1  == ActualizarPedido(db.pedidos, v.key, "cocina",
                                          "task_token_cocina", Get(ev.d, "taskToken"))
        IN  Resultado([db EXCEPT !.cocina = cocina1, !.pedidos = pedidos1],
                      200, MsgOk, v.lecturas, <<>>)

cocina_a_empaquetamiento(db, event, ahora1, ahora2) ==
    LET ev == parse_event(event)
        v  == validar_pedido_y_estado(db.pedidos, ev, "cocina")
    IN  IF v.paso # "ok" THEN RespuestaGuard(db, v)
        ELSE
        LET id_pedido    == ItemGet(db.pedidos[v.key], "id")
            cocina1      == TerminarEtapa(db.cocina, id_pedido, ahora1)
            despachador1 == CrearEtapa(db.despachador, id_pedido,
                                       Get(ev.d, "id_empleado"), ahora2)
            pedidos1     == ActualizarPedido(db.pedidos, v.key, "empaquetamiento",
                                "task_token_empaquetamiento", Get(ev.d, "taskToken"))
        IN  Resultado([db EXCEPT !.cocina = cocina1, !.despachador = despachador1,
                                 !.pedidos = pedidos1],
                      200, MsgOk, v.lecturas, <<>>)

empaquetamiento_a_delivery(db, event, ahora1, ahora2) ==
    LET ev == parse_event(event)
        v  == validar_pedido_y_estado(db.pedidos, ev, "empaquetamiento")
    IN  IF v.paso # "ok" THEN RespuestaGuard(db, v)
        ELSE
        LET tenant_id    == ItemGet(db.pedidos[v.key], "tenant_id")
            id_pedido    == ItemGet(db.pedidos[v.key], "id")
            despachador1 == TerminarEtapa(db.despachador, id_pedido, ahora1)
            delivery1    == CrearDelivery(db.delivery, tenant_id, id_pedido, ev.d)
            pedidos1     == ActualizarPedido(db.pedidos, v.key, "delivery",
                                "task_token_delivery", Get(ev.d, "taskToken"))
        IN  Resultado([db EXCEPT !.despachador = despachador1, !.delivery = delivery1,
                                 !.pedidos = pedidos1],
                      200, MsgOk, v.lecturas, <<>>)

delivery_a_entregado(db, event, ahora1, ahora2) ==
    LET ev == parse_event(event)
        v  == validar_pedido_y_estado(db.pedidos, ev, "delivery")
    IN  IF v.paso # "ok" THEN RespuestaGuard(db, v)
        ELSE
        LET id_pedido == ItemGet(db.pedidos[v.key], "id")
            delivery1 == CumplirDelivery(db.delivery, id_pedido)
            pedidos1  == ActualizarPedido(db.pedidos, v.key, "entregado", None, PyNone)
        IN  Resultado([db EXCEPT !.delivery = delivery1, !.pedidos = pedidos1],
                      200, MsgOk, v.lecturas, <<>>)

-----------------------------------------------------------------------------
(* confirmar_paso *)

\* a mapping that derives a field name from any paso
mapa_paso_token_Otro(paso) ==
    IF paso.t # "str" THEN None
    ELSE CASE paso.s = "cocina-lista"          -> "task_token_cocina"
           [] paso.s = "empaquetamiento-listo" -> "task_token_empaquetamiento"
           [] OTHER                            -> "task_token_delivery"

\* mapa_paso_token.get(paso)
mapa_paso_token(paso) ==
    IF paso.t # "str" THEN None
    ELSE CASE paso.s = "cocina-lista"          -> "task_token_cocina"
           [] paso.s = "empaquetamiento-listo" -> "task_token_empaquetamiento"
           [] paso.s = "delivery-entregado"    -> "task_token_delivery"
           [] OTHER                            -> None

confirmar_paso(db, event, ahora1, ahora2) ==
    LET ev == parse_event(event)
    IN  IF ~IsDict(ev) THEN Excepcion(db, 0)
        ELSE
        LET tenant_id == Get(ev.d, "tenant_id")
            id_pedido == IdPedidoDe(ev.d)
            paso      == Get(ev.d, "paso")
            key       == <<Bare(tenant_id), Bare(id_pedido)>>
        IN  IF ~Truthy(tenant_id) \/ ~Truthy(id_pedido) \/ ~Truthy(paso)
            THEN Resultado(db, 400, MsgFaltanPaso, 0, <<>>)
            ELSE IF tenant_id.t # "str" \/ id_pedido.t # "str"
            THEN Excepcion(db, 1)
            ELSE IF ~HayItem(db.pedidos, key)
            THEN Resultado(db, 404, MsgNoEncontrado, 1, <<>>)
            ELSE
            LET nombre_campo == mapa_paso_token(paso)
                task_token   == IF nombre_campo = None THEN None
                                ELSE ItemGet(db.pedidos[key], nombre_campo)
            IN  IF nombre_campo = None
                THEN Resultado(db, 400, MsgPasoNoSoportado, 1, <<>>)
                ELSE IF task_token \in {None, ""}
                THEN Resultado(db, 400, MsgSinToken, 1, <<>>)
                ELSE Resultado(
                        [db EXCEPT !.pedidos =
                            update_item_remove(db.pedidos, key,
                                LlavePedido(key[1], key[2]), nombre_campo)],
                        200, MsgOk, 1, <<task_token>>)

-----------------------------------------------------------------------------
(* The requests the handlers are invoked with *)

Tokens == {"tk1", "tk2"}

\* the values obtener_timestamp_iso returns
Timestamps == {"ts1"}

Pasos == {"cocina-lista", "empaquetamiento-listo", "delivery-entregado"}

\* marks a key left out of a request
Ausente == "<ausente>"

\* the dict with the keys of f that are not Ausente; None is JSON null
DeCampos(f) ==
    [k \in {x \in DOMAIN f : f[x] # Ausente} |->
        IF f[k] = None THEN PyNone ELSE PyStr(f[k])]

\* the optional fields of a request: none, all of them, or some of them
\* with empty and null values among them
Extras(x) ==
    CASE x = "todo"    -> [id_empleado |-> "e1", repartidor |-> "r1",
                           id_repartidor |-> "rid1", origen |-> "a", destino |-> "b"]
      [] x = "parcial" -> [id_empleado |-> "", repartidor |-> "r1",
                           id_repartidor |-> Ausente, origen |-> None, destino |-> ""]
      [] OTHER         -> [id_empleado |-> Ausente, repartidor |-> Ausente,
                           id_repartidor |-> Ausente, origen |-> Ausente,
                           destino |-> Ausente]

Campos(t, ip, i, tk, x) ==
    DeCampos([k \in {"tenant_id", "id_pedido", "id", "taskToken"} \cup DOMAIN Extras(x) |->
        CASE k = "tenant_id" -> t
          [] k = "id_pedido" -> ip
          [] k = "id"        -> i
          [] k = "taskToken" -> tk
          [] OTHER           -> Extras(x)[k]])

CamposPaso(t, ip, i, p) ==
    DeCampos([tenant_id |-> t, id_pedido |-> ip, id |-> i, paso |-> p])

\* the order id given as id, or as both id_pedido and id
FormasDeId == {<<Ausente, "o1">>, <<None, "o1">>, <<"o2", "o1">>}

\* tenant_id or the order id missing, null or empty
FormasIncompletas ==
    {<<Ausente, "o1", Ausente>>, <<"t1", Ausente, Ausente>>,
     <<"", "o1", Ausente>>, <<"t1", "", "">>}

OrdenClaves == <<"tenant_id", "id_pedido", "id", "paso", "taskToken", "id_empleado">>

TokDe(v) ==
    CASE v.t = "None" -> "null"
      [] v.t = "num"  -> (IF v.n = 0 THEN "0" ELSE "7")
      [] OTHER        -> v.s

RECURSIVE Miembros(_, _)
\* the tokens of the members of d whose keys are OrdenClaves[i..]
Miembros(d, i) ==
    IF i > Len(OrdenClaves) THEN <<>>
    ELSE LET k     == OrdenClaves[i]
             resto == Miembros(d, i + 1)
         IN  IF k \notin DOMAIN d THEN resto
             ELSE <<k, ":", TokDe(d[k])>> \o (IF resto = <<>> THEN <<>> ELSE <<",">> \o resto)

\* json.dumps(d) as the client of the gateway serializes a flat object
Dumps(d) == PyTexto(<<"{">> \o Miembros(d, 1) \o <<"}">>)

Gateway(body, path) ==
    [k \in {"body", "pathParameters"} |-> IF k = "body" THEN body ELSE path]

SoloBody(body) == [k \in {"body"} |-> body]

Orquestador(taskToken, input) ==
    [k \in {"taskToken", "input"} |-> IF k = "taskToken" THEN taskToken ELSE input]

\* requests for the order of tenant t1, in the three shapes, well formed or not
EventosUnPedido ==
    {Campos("t1", "o1", Ausente, tk, "nada") : tk \in Tokens \cup {Ausente, ""}}
    \cup {Campos("t1", f[1], f[2], Ausente, "nada") : f \in FormasDeId}
    \cup {Campos(f[1], f[2], f[3], Ausente, "nada") : f \in FormasIncompletas}
    \cup {Campos("t2", "o1", Ausente, "tk1", "nada")}
    \cup {Orquestador(PyStr(tk), PyDict(Campos("t1", "o1", Ausente, Ausente, "nada"))) :
            tk \in Tokens}
    \cup {Orquestador(PyStr("tk1"), PyNone),
          Gateway(Dumps(Campos("t1", Ausente, Ausente, "tk1", "nada")),
                  PyDict(Campos(Ausente, "o1", Ausente, Ausente, "nada"))),
          Gateway(Dumps(Campos("t1", "o1", Ausente, Ausente, "nada")),
                  PyDict(Campos(Ausente, "o2", Ausente, Ausente, "nada"))),
          Gateway(Dumps(Campos("t1", None, Ausente, Ausente, "nada")),
                  PyDict(Campos(Ausente, "o1", Ausente, Ausente, "nada"))),
          Gateway(Dumps([tenant_id |-> PyNum(7), id_pedido |-> PyStr("o1")]), PyNone),
          Gateway(PyTexto(<<Basura>>),
                  PyDict(Campos("t1", "o1", Ausente, Ausente, "nada"))),
          Gateway(PyTexto(<<"[", "7", "]">>),
                  PyDict(Campos("t1", "o1", Ausente, Ausente, "nada"))),
          SoloBody(PyTexto(<<"[", "7", "]">>)),
          SoloBody(PyTexto(<<"null">>))}

\* requests for the orders of both tenants, which share the order id o1
EventosDosPedidos ==
    {Campos("t1", "o1", Ausente, tk, "nada") : tk \in {Ausente, "tk1"}}
    \cup {Campos("t2", "o1", Ausente, Ausente, "nada"),
          Campos("t2", "o2", Ausente, Ausente, "nada"),
          Campos(Ausente, "o1", Ausente, Ausente, "nada")}

\* requests for the order of tenant t2, with and without the optional fields
EventosConExtras ==
    {Campos("t2", "o1", Ausente, Ausente, x) : x \in {"nada", "todo", "parcial"}}
    \cup {Campos("t2", "o2", Ausente, Ausente, "todo")}

ConfirmarUnPedido ==
    {CamposPaso("t1", "o1", Ausente, p) : p \in Pasos \cup {"foo", Ausente}}
    \cup {CamposPaso("t1", "o2", Ausente, p) : p \in {"cocina-lista", "foo"}}
    \cup {CamposPaso(f[1], f[2], f[3], p) :
            f \in {<<Ausente, "o1", Ausente>>, <<"t1", "", "">>}, p \in {"cocina-lista", "foo"}}
    \cup {CamposPaso("t1", Ausente, "o1", "delivery-entregado"),
          CamposPaso("t2", "o1", Ausente, "foo"),
          CamposPaso(Ausente, "o2", Ausente, Ausente),
          Gateway(Dumps(CamposPaso("t1", Ausente, Ausente, "cocina-lista")),
                  PyDict(CamposPaso(Ausente, "o1", Ausente, "foo"))),
          Gateway(Dumps([tenant_id |-> PyStr("t1"), id_pedido |-> PyStr("o1"),
                         paso |-> PyNum(7)]), PyNone),
          SoloBody(PyTexto(<<"[", "7", "]">>))}

ConfirmarDosPedidos ==
    {CamposPaso("t1", "o1", Ausente, p) : p \in Pasos}
    \cup {CamposPaso("t2", "o1", Ausente, "cocina-lista")}

ConfirmarConExtras ==
    {CamposPaso("t2", "o1", Ausente, p) : p \in {"cocina-lista", "foo"}}

-----------------------------------------------------------------------------
(* The state machine: each handler invocation runs to completion *)

\* an order as the external "order paid" process creates it
PedidoPagado(tenant_id, id_pedido) ==
    [a \in {"tenant_id", "id", "estado_pedido"} |->
        CASE a = "tenant_id" -> tenant_id
          [] a = "id"        -> id_pedido
          [] OTHER           -> "pagado"]

\* the orders that exist: the order o1 of tenant t1 alone, an order of
\* tenant t2 alone, or both, which then share the order id
Poblaciones == {{<<"t1", "o1">>}, {<<"t2", "o1">>}, {<<"t1", "o1">>, <<"t2", "o1">>}}

\* the requests explored, by the orders that exist
EventosTransicion ==
    CASE DOMAIN pedidos = {<<"t1", "o1">>} -> EventosUnPedido
      [] DOMAIN pedidos = {<<"t2", "o1">>} -> EventosConExtras
      [] OTHER                             -> EventosDosPedidos

EventosConfirmar ==
    CASE DOMAIN pedidos = {<<"t1", "o1">>} -> ConfirmarUnPedido
      [] DOMAIN pedidos = {<<"t2", "o1">>} -> ConfirmarConExtras
      [] OTHER                             -> ConfirmarDosPedidos

\* parse_event has not been applied to evento yet
Pendiente == [t |-> "pendiente"]

\* the number of invocations that may be in flight at once
MaxHilos == 3

Hilos == 1..MaxHilos

\* an invocation slot that no invocation has used
Libre ==
    [pc |-> "libre", op |-> "ninguna", e |-> Vacio, key |-> <<None, None>>,
     token |-> None, hecho |-> 0, statusCode |-> 0, antes |-> Vacio]

\* no execution of the state machine has been started
OrquestadorParado == [fase |-> "parado", n |-> 0]

SinLlamada ==
    [op |-> "ninguna", dict |-> FALSE, tenant_id |-> None, id_pedido |-> None,
     paso |-> None, taskToken |-> None, statusCode |-> 0,
     mensaje |-> MsgOk, lecturas |-> 0, senales |-> <<>>]

Init ==
    /\ pedidos \in {[k \in P |-> PedidoPagado(k[1], k[2])] : P \in Poblaciones}
    /\ cocina = [k \in {} |-> Vacio]
    /\ despachador = [k \in {} |-> Vacio]
    /\ delivery = [k \in {} |-> Vacio]
    /\ llamada = SinLlamada
    /\ evento = Vacio
    /\ normalizado = Pendiente
    /\ hilos = [h \in Hilos |-> Libre]
    /\ enviados = <<>>
    /\ orquestador = OrquestadorParado

\* v as the record of the invocation keeps it: None when v is falsy
Dato(v) == IF Truthy(v) THEN Bare(v) ELSE None

\* the invocation of handler op with envelope e, whose outcome is res
Invocar(op, e, res) ==
    LET ev == parse_event(e)
        d  == IF IsDict(ev) THEN ev.d ELSE Vacio
    IN  /\ pedidos' = res.db.pedidos
        /\ cocina' = res.db.cocina
        /\ despachador' = res.db.despachador
        /\ delivery' = res.db.delivery
        /\ llamada' = [op |-> op, dict |-> IsDict(ev),
                       tenant_id |-> Dato(Get(d, "tenant_id")),
                       id_pedido |-> Dato(IdPedidoDe(d)),
                       paso |-> Dato(Get(d, "paso")),
                       taskToken |-> Dato(Get(d, "taskToken")),
                       statusCode |-> res.statusCode, mensaje |-> res.mensaje,
                       lecturas |-> res.lecturas, senales |-> res.senales]
        /\ UNCHANGED <<evento, normalizado, hilos, enviados, orquestador>>

PagadoACocina ==
    \E e \in EventosTransicion, a1 \in Timestamps :
        Invocar("pagado_a_cocina", e, pagado_a_cocina(DB, e, a1, a1))

CocinaAEmpaquetamiento ==
    \E e \in EventosTransicion, a1 \in Timestamps, a2 \in Timestamps :
        Invocar("cocina_a_empaquetamiento", e, cocina_a_empaquetamiento(DB, e, a1, a2))

EmpaquetamientoADelivery ==
    \E e \in EventosTransicion, a1 \in Timestamps :
        Invocar("empaquetamiento_a_delivery", e, empaquetamiento_a_delivery(DB, e, a1, a1))

DeliveryAEntregado ==
    \E e \in EventosTransicion, a1 \in Timestamps :
        Invocar("delivery_a_entregado", e, delivery_a_entregado(DB, e, a1, a1))

ConfirmarPaso ==
    \E e \in EventosConfirmar, a1 \in Timestamps :
        Invocar("confirmar_paso", e, confirmar_paso(DB, e, a1, a1))

Next ==
    \/ PagadoACocina
    \/ CocinaAEmpaquetamiento
    \/ EmpaquetamientoADelivery
    \/ DeliveryAEntregado
    \/ ConfirmarPaso

Spec == Init /\ [][Next]_vars

-----------------------------------------------------------------------------
(* The Request Normalizer on its own: an envelope arrives, parse_event is   *)
(* applied to it.                                                           *)

CuerposObjeto ==
    {DeCampos([tenant_id |-> t, id_pedido |-> ip]) :
        t \in {Ausente, "t1", None}, ip \in {Ausente, "o1", None, ""}}

\* values of pathParameters: mappings of string to string, null, and a string
Rutas ==
    {PyDict(DeCampos([tenant_id |-> t, id_pedido |-> ip, id |-> i])) :
        t \in {Ausente, "t2"}, ip \in {Ausente, "o2"}, i \in {Ausente, "o3"}}
    \cup {PyNone, PyStr("x")}

\* texts that json.loads rejects, or that hold no object
TextosSinObjeto ==
    {PyTexto(<<Basura>>), PyTexto(<<"{", "tenant_id", ":">>), PyTexto(<<>>),
     PyStr("t1"), PyTexto(<<"[", "7", "]">>), PyTexto(<<"[", "]">>),
     PyTexto(<<"null">>), PyTexto(<<"7">>), PyTexto(<<"o1">>)}

EventosParse ==
    {Gateway(Dumps(b), r) : b \in CuerposObjeto, r \in Rutas}
    \cup {SoloBody(Dumps(b)) : b \in CuerposObjeto}
    \cup {Gateway(b, r) : b \in TextosSinObjeto,
            r \in {PyNone, PyDict(Vacio), PyDict(DeCampos([tenant_id |-> "t2"]))}}
    \cup {SoloBody(b) : b \in TextosSinObjeto}
    \cup {Orquestador(PyStr(tk), i) :
            tk \in Tokens, i \in {PyNone, PyDict(Vacio),
                                  PyDict(Campos("t1", "o1", Ausente, "tk1", "nada"))}}
    \cup {Put(Orquestador(PyStr("tk1"), PyDict(DeCampos([tenant_id |-> "t2"]))),
              "body", Dumps(DeCampos([tenant_id |-> "t1"])))}
    \cup {Campos("t1", "o1", Ausente, tk, "nada") : tk \in {Ausente, "tk1"}}
    \cup {Vacio}

InitParse ==
    /\ Init
    /\ DOMAIN pedidos = {<<"t1", "o1">>}

\* a request envelope arrives
RecibirEvento ==
    /\ evento' \in EventosParse
    /\ normalizado' = Pendiente
    /\ UNCHANGED <<pedidos, cocina, despachador, delivery, llamada>>
    /\ UNCHANGED <<hilos, enviados, orquestador>>

\* event = parse_event(event)
NormalizarEvento ==
    /\ normalizado = Pendiente
    /\ normalizado' = parse_event(evento)
    /\ UNCHANGED <<pedidos, cocina, despachador, delivery, llamada, evento>>
    /\ UNCHANGED <<hilos, enviados, orquestador>>

NextParse == RecibirEvento \/ NormalizarEvento

SpecParse == InitParse /\ [][NextParse]_vars

-----------------------------------------------------------------------------
(* The handlers as the store sees them: an invocation is its validation    *)
(* with the one read of the order, then one step per store write or        *)
(* orchestrator call, in the order of the code.  Invocations interleave    *)
(* between steps.                                                           *)

\* the state each transition handler passes to validar_pedido_y_estado
estado_esperado(op) ==
    CASE op = "pagado_a_cocina"            -> "pagado"
      [] op = "cocina_a_empaquetamiento"   -> "cocina"
      [] op = "empaquetamiento_a_delivery" -> "empaquetamiento"
      [] op = "delivery_a_entregado"       -> "delivery"

\* the value of :nuevo_estado in each handler's order update
nuevo_estado(op) ==
    CASE op = "pagado_a_cocina"            -> "cocina"
      [] op = "cocina_a_empaquetamiento"   -> "empaquetamiento"
      [] op = "empaquetamiento_a_delivery" -> "delivery"
      [] op = "delivery_a_entregado"       -> "entregado"

\* handlers that all store their token under task_token_cocina
campo_token_Unico(op) ==
    CASE op = "pagado_a_cocina"            -> "task_token_cocina"
      [] op = "cocina_a_empaquetamiento"   -> "task_token_cocina"
      [] op = "empaquetamiento_a_delivery" -> "task_token_cocina"
      [] OTHER                             -> None

\* the token field each handler's order update sets, None when it sets none
campo_token(op) ==
    CASE op = "pagado_a_cocina"            -> "task_token_cocina"
      [] op = "cocina_a_empaquetamiento"   -> "task_token_empaquetamiento"
      [] op = "empaquetamiento_a_delivery" -> "task_token_delivery"
      [] OTHER                             -> None

\* a handler that updates the order before it writes the stage records
PasosDe_PedidoPrimero(op) ==
    CASE op = "pagado_a_cocina" ->
            <<"update_pedidos", "put_cocina">>
      [] op = "cocina_a_empaquetamiento" ->
            <<"update_pedidos", "update_cocina", "put_despachador">>
      [] op = "empaquetamiento_a_delivery" ->
            <<"update_pedidos", "update_despachador", "put_delivery">>
      [] op = "delivery_a_entregado" ->
            <<"update_pedidos", "update_delivery">>
      [] OTHER ->
            <<"send_task_success", "remove_token">>

\* the calls each handler makes after its validation, in the order of the code
PasosDe(op) ==
    CASE op = "pagado_a_cocina" ->
            <<"put_cocina", "update_pedidos">>
      [] op = "cocina_a_empaquetamiento" ->
            <<"update_cocina", "put_despachador", "update_pedidos">>
      [] op = "empaquetamiento_a_delivery" ->
            <<"update_despachador", "put_delivery", "update_pedidos">>
      [] op = "delivery_a_entregado" ->
            <<"update_delivery", "update_pedidos">>
      [] OTHER ->
            <<"send_task_success", "remove_token">>

\* the tables after the call w of the invocation hi, made at time ahora;
\* send_task_success writes to no table
Paso(db, hi, w, ahora) ==
    LET d  == parse_event(hi.e).d
        id == hi.key[2]
    IN  CASE w = "put_cocina" ->
                [db EXCEPT !.cocina =
                    CrearEtapa(db.cocina, id, Get(d, "id_empleado"), ahora)]
          [] w = "update_cocina" ->
                [db EXCEPT !.cocina = TerminarEtapa(db.cocina, id, ahora)]
          [] w = "put_despachador" ->
                [db EXCEPT !.despachador =
                    CrearEtapa(db.despachador, id, Get(d, "id_empleado"), ahora)]
          [] w = "update_despachador" ->
                [db EXCEPT !.despachador = TerminarEtapa(db.despachador, id, ahora)]
          [] w = "put_delivery" ->
                [db EXCEPT !.delivery = CrearDelivery(db.delivery, hi.key[1], id, d)]
          [] w = "update_delivery" ->
                [db EXCEPT !.delivery = CumplirDelivery(db.delivery, id)]
          [] w = "update_pedidos" ->
                [db EXCEPT !.pedidos =
                    ActualizarPedido(db.pedidos, hi.key, nuevo_estado(hi.op),
                                     campo_token(hi.op), Get(d, "taskToken"))]
          [] w = "remove_token" ->
                [db EXCEPT !.pedidos =
                    update_item_remove(db.pedidos, hi.key,
                        LlavePedido(hi.key[1], hi.key[2]),
                        mapa_paso_token(Get(d, "paso")))]
          [] OTHER -> db

\* the invocation of op with envelope e after its validation: finished with
\* the error response, or about to make its first call.  foto is what the
\* invocation record keeps of the tables it started from.
Validada(db, op, e, foto) ==
    LET ev == parse_event(e)
    IN  IF op = "confirmar_paso"
        THEN LET r == confirmar_paso(db, e, None, None)
             IN  IF r.statusCode # 200
                 THEN [Libre EXCEPT !.pc = "fin", !.op = op, !.e = e,
                                    !.statusCode = r.statusCode, !.antes = foto]
                 ELSE [Libre EXCEPT !.pc = "escribiendo", !.op = op, !.e = e,
                                    !.key = <<Bare(Get(ev.d, "tenant_id")),
                                              Bare(IdPedidoDe(ev.d))>>,
                                    !.token = r.senales[1], !.antes = foto]
        ELSE LET v == validar_pedido_y_estado(db.pedidos, ev, estado_esperado(op))
             IN  IF v.paso # "ok"
                 THEN [Libre EXCEPT !.pc = "fin", !.op = op, !.e = e,
                                    !.statusCode = RespuestaGuard(db, v).statusCode,
                                    !.antes = foto]
                 ELSE [Libre EXCEPT !.pc = "escribiendo", !.op = op, !.e = e,
                                    !.key = v.key, !.antes = foto]

\* an invocation of op with envelope e starts in slot h and runs up to the
\* end of its validation
IniciarHilo(h, op, e, foto) ==
    /\ hilos[h].pc # "escribiendo"
    /\ hilos' = [hilos EXCEPT ![h] = Validada(DB, op, e, foto)]
    /\ UNCHANGED <<pedidos, cocina, despachador, delivery, llamada, evento,
                   normalizado, enviados>>

\* the next call of the invocation in slot h when the order update carries
\* the condition that the order is still in the state the Guard read: an
\* update whose condition fails writes nothing and ends the invocation
EjecutarPaso_Condicional(h, horas) ==
    /\ hilos[h].pc = "escribiendo"
    /\ \E ahora \in horas :
        LET hi  == hilos[h]
            n   == hi.hecho + 1
            w   == PasosDe(hi.op)[n]
            ok  == w = "update_pedidos" =>
                      ItemGet(pedidos[hi.key], "estado_pedido") = estado_esperado(hi.op)
            db2 == IF ok THEN Paso(DB, hi, w, ahora) ELSE DB
            fin == n = Len(PasosDe(hi.op))
        IN  /\ pedidos' = db2.pedidos
            /\ cocina' = db2.cocina
            /\ despachador' = db2.despachador
            /\ delivery' = db2.delivery
            /\ enviados' = IF w = "send_task_success"
                           THEN Append(enviados, hi.token) ELSE enviados
            /\ hilos' = [hilos EXCEPT ![h].hecho = IF ok THEN n ELSE hi.hecho,
                            ![h].pc = IF fin \/ ~ok THEN "fin" ELSE "escribiendo",
                            ![h].statusCode = IF fin /\ ok THEN 200 ELSE 0]
    /\ UNCHANGED <<llamada, evento, normalizado, orquestador>>

\* the invocation in slot h makes its next call, at a time of horas; after
\* its last call it returns 200
EjecutarPaso(h, horas) ==
    /\ hilos[h].pc = "escribiendo"
    /\ \E ahora \in horas :
        LET hi  == hilos[h]
            n   == hi.hecho + 1
            w   == PasosDe(hi.op)[n]
            db2 == Paso(DB, hi, w, ahora)
            fin == n = Len(PasosDe(hi.op))
        IN  /\ pedidos' = db2.pedidos
            /\ cocina' = db2.cocina
            /\ despachador' = db2.despachador
            /\ delivery' = db2.delivery
            /\ enviados' = IF w = "send_task_success"
                           THEN Append(enviados, hi.token) ELSE enviados
            /\ hilos' = [hilos EXCEPT ![h].hecho = n,
                            ![h].pc = IF fin THEN "fin" ELSE "escribiendo",
                            ![h].statusCode = IF fin THEN 200 ELSE 0]
    /\ UNCHANGED <<llamada, evento, normalizado, orquestador>>

-----------------------------------------------------------------------------
(* Concurrent invocations on one order: up to MaxHilos invocations, each   *)
(* started at any moment, their store operations interleaved.              *)

Handlers ==
    {"pagado_a_cocina", "cocina_a_empaquetamiento", "empaquetamiento_a_delivery",
     "delivery_a_entregado"}

EventosConc == {Campos("t1", "o1", Ausente, tk, "nada") : tk \in {Ausente, "tk1"}}

ConfirmarConc == {CamposPaso("t1", "o1", Ausente, p) : p \in Pasos}

\* the tables that hold the one order of tenant t1, as paid
Pagado ==
    [pedidos     |-> [k \in {<<"t1", "o1">>} |-> PedidoPagado("t1", "o1")],
     cocina      |-> [k \in {} |-> Vacio],
     despachador |-> [k \in {} |-> Vacio],
     delivery    |-> [k \in {} |-> Vacio]]

\* the tables after the first n transitions of that order, each made by one
\* invocation that ran alone and was given no task token
RECURSIVE Avanzado(_)
Avanzado(n) ==
    IF n = 0 THEN Pagado
    ELSE LET db == Avanzado(n - 1)
             e  == Campos("t1", "o1", Ausente, Ausente, "nada")
         IN  CASE n = 1 -> pagado_a_cocina(db, e, "ts1", "ts1").db
               [] n = 2 -> cocina_a_empaquetamiento(db, e, "ts1", "ts1").db
               [] OTHER -> empaquetamiento_a_delivery(db, e, "ts1", "ts1").db

\* the concurrent invocations meet the order in any of the states before
\* entregado
InitConc ==
    /\ \E n \in 0..3 :
        /\ pedidos = Avanzado(n).pedidos
        /\ cocina = Avanzado(n).cocina
        /\ despachador = Avanzado(n).despachador
        /\ delivery = Avanzado(n).delivery
    /\ llamada = SinLlamada
    /\ evento = Vacio
    /\ normalizado = Pendiente
    /\ hilos = [h \in Hilos |-> Libre]
    /\ enviados = <<>>
    /\ orquestador = OrquestadorParado

\* slot h is the first one not used yet
Siguiente(h) ==
    /\ hilos[h].pc = "libre"
    /\ \A g \in Hilos : g < h => hilos[g].pc # "libre"

LlamarHandler ==
    \E h \in Hilos, op \in Handlers, e \in EventosConc :
        /\ Siguiente(h)
        /\ IniciarHilo(h, op, e, Vacio)
        /\ UNCHANGED orquestador

LlamarConfirmar ==
    \E h \in Hilos, e \in ConfirmarConc :
        /\ Siguiente(h)
        /\ IniciarHilo(h, "confirmar_paso", e, Vacio)
        /\ UNCHANGED orquestador

AvanzarHilo == \E h \in Hilos : EjecutarPaso(h, Timestamps)

NextConc == LlamarHandler \/ LlamarConfirmar \/ AvanzarHilo

SpecConc == InitConc /\ [][NextConc]_vars

-----------------------------------------------------------------------------
(* Store failures: the transition handlers are invoked one after the       *)
(* other, and any store call of an invocation may fail.  The handlers      *)
(* catch nothing: the exception of the failed call ends the invocation.    *)

\* the number of invocations of a run: a call and its retry
MaxIntentos == 2

\* the values obtener_timestamp_iso returns over the calls of these runs
Horas == {"ts1", "ts2"}

EventosFallo ==
    {Campos("t1", "o1", Ausente, tk, x) : tk \in {Ausente, "tk1"}, x \in {"nada", "todo"}}

\* a failed call whose invocation undoes the writes it had made
Fallar_Deshace(h) ==
    /\ hilos[h].pc = "escribiendo"
    /\ hilos' = [hilos EXCEPT ![h].pc = "fin", ![h].statusCode = 0]
    /\ pedidos' = hilos[h].antes.pedidos
    /\ cocina' = hilos[h].antes.cocina
    /\ despachador' = hilos[h].antes.despachador
    /\ delivery' = hilos[h].antes.delivery
    /\ UNCHANGED <<llamada, evento, normalizado, enviados, orquestador>>

\* the next call of the invocation in slot h fails: it writes nothing and
\* the invocation ends without a response
Fallar(h) ==
    /\ hilos[h].pc = "escribiendo"
    /\ hilos' = [hilos EXCEPT ![h].pc = "fin", ![h].statusCode = 0]
    /\ UNCHANGED <<pedidos, cocina, despachador, delivery, llamada, evento,
                   normalizado, enviados, orquestador>>

\* a handler is invoked once no other invocation is running; its record
\* keeps the tables it started from
LlamarSolo ==
    \E h \in Hilos, op \in Handlers, e \in EventosFallo :
        /\ h <= MaxIntentos
        /\ Siguiente(h)
        /\ \A g \in Hilos : hilos[g].pc # "escribiendo"
        /\ IniciarHilo(h, op, e, DB)
        /\ UNCHANGED orquestador

AvanzarSolo == \E h \in Hilos : EjecutarPaso(h, Horas)

FallarPaso == \E h \in Hilos : Fallar(h)

NextFallo == LlamarSolo \/ AvanzarSolo \/ FallarPaso

SpecFallo == InitConc /\ [][NextFallo]_vars

-----------------------------------------------------------------------------
(* The orchestrated flow of one order.  The orchestrator invokes each of   *)
(* the first three handlers with a fresh task token and waits for          *)
(* send_task_success on that token, then invokes the next handler; the     *)
(* last handler gets no token.  confirmar_paso is called from outside, for *)
(* any paso at any moment, one call at a time.  The handler invocation     *)
(* runs in slot 1, the confirmar_paso call in slot 2.                      *)

HandlerN(n) ==
    CASE n = 1 -> "pagado_a_cocina"
      [] n = 2 -> "cocina_a_empaquetamiento"
      [] n = 3 -> "empaquetamiento_a_delivery"
      [] OTHER -> "delivery_a_entregado"

\* the task token the orchestrator issues for its n-th task
TokenN(n) ==
    CASE n = 1 -> "tk1"
      [] n = 2 -> "tk2"
      [] OTHER -> "tk3"

\* the envelope of the n-th task: the token and the input for the tasks that
\* wait for a callback, the input alone for the last one
EventoN(n) ==
    IF n <= 3
    THEN Orquestador(PyStr(TokenN(n)),
                     PyDict(Campos("t1", "o1", Ausente, Ausente, "nada")))
    ELSE Campos("t1", "o1", Ausente, Ausente, "nada")

InitOrq ==
    /\ pedidos = Pagado.pedidos
    /\ cocina = Pagado.cocina
    /\ despachador = Pagado.despachador
    /\ delivery = Pagado.delivery
    /\ llamada = SinLlamada
    /\ evento = Vacio
    /\ normalizado = Pendiente
    /\ hilos = [h \in Hilos |-> Libre]
    /\ enviados = <<>>
    /\ orquestador = [fase |-> "invocar", n |-> 1]

\* the orchestrator invokes the handler of its next task
OrqInvocar ==
    /\ orquestador.fase = "invocar"
    /\ IniciarHilo(1, HandlerN(orquestador.n), EventoN(orquestador.n), Vacio)
    /\ orquestador' = [orquestador EXCEPT !.fase = "esperando"]

\* the invoked handler makes its next store call
OrqHandlerPaso == EjecutarPaso(1, Timestamps)

\* the token of the task the orchestrator waits on was passed to
\* send_task_success: the execution moves on to the next task
OrqReanudar ==
    /\ orquestador.fase = "esperando"
    /\ orquestador.n <= 3
    /\ hilos[1].pc = "fin"
    /\ \E i \in DOMAIN enviados : enviados[i] = TokenN(orquestador.n)
    /\ orquestador' = [fase |-> "invocar", n |-> orquestador.n + 1]
    /\ UNCHANGED <<pedidos, cocina, despachador, delivery, llamada, evento,
                   normalizado, hilos, enviados>>

\* the last task returned: the execution ends
OrqTerminar ==
    /\ orquestador.fase = "esperando"
    /\ orquestador.n = 4
    /\ hilos[1].pc = "fin"
    /\ orquestador' = [orquestador EXCEPT !.fase = "terminado"]
    /\ UNCHANGED <<pedidos, cocina, despachador, delivery, llamada, evento,
                   normalizado, hilos, enviados>>

\* the values of paso confirmar_paso is called with
PasosPedidos == Pasos \cup {"foo"}

\* confirmar_paso is called for paso p
Confirma(p) ==
    /\ IniciarHilo(2, "confirmar_paso", CamposPaso("t1", "o1", Ausente, p), Vacio)
    /\ UNCHANGED orquestador

\* the confirmar_paso call makes its next call: send_task_success, then the
\* removal of the token field
ConfirmaPaso == EjecutarPaso(2, Timestamps)

NextOrq ==
    \/ OrqInvocar
    \/ OrqHandlerPaso
    \/ OrqReanudar
    \/ OrqTerminar
    \/ \E p \in PasosPedidos : Confirma(p)
    \/ ConfirmaPaso

\* every started invocation goes on to its end, the orchestrator goes on
\* when it can, and the confirmation of each paso keeps being called
EquidadOrq ==
    /\ WF_vars(OrqInvocar)
    /\ WF_vars(OrqHandlerPaso)
    /\ WF_vars(OrqReanudar)
    /\ WF_vars(OrqTerminar)
    /\ WF_vars(ConfirmaPaso)
    /\ \A p \in PasosPedidos : WF_vars(Confirma(p))

SpecOrq == InitOrq /\ [][NextOrq]_vars /\ EquidadOrq

-----------------------------------------------------------------------------
(* Claims *)

Transiciones ==
    {"pagado_a_cocina", "cocina_a_empaquetamiento", "empaquetamiento_a_delivery",
     "delivery_a_entregado"}

\* the documented prior state of each transition handler
EstadoEsperado(op) ==
    CASE op = "pagado_a_cocina"            -> "pagado"
      [] op = "cocina_a_empaquetamiento"   -> "cocina"
      [] op = "empaquetamiento_a_delivery" -> "empaquetamiento"
      [] op = "delivery_a_entregado"       -> "delivery"

\* the immediate successor of a state in pagado, cocina, empaquetamiento,
\* delivery, entregado
Sucesor(estado) ==
    CASE estado = "pagado"          -> "cocina"
      [] estado = "cocina"          -> "empaquetamiento"
      [] estado = "empaquetamiento" -> "delivery"
      [] estado = "delivery"        -> "entregado"
      [] OTHER                      -> None

CamposToken == {"task_token_cocina", "task_token_empaquetamiento", "task_token_delivery"}

\* the documented token field of each transition handler
CampoTokenDe(op) ==
    CASE op = "pagado_a_cocina"            -> "task_token_cocina"
      [] op = "cocina_a_empaquetamiento"   -> "task_token_empaquetamiento"
      [] op = "empaquetamiento_a_delivery" -> "task_token_delivery"
      [] OTHER                             -> None

\* the token field a stage awaits confirmation on
CampoDeEstado(estado) ==
    CASE estado = "cocina"          -> "task_token_cocina"
      [] estado = "empaquetamiento" -> "task_token_empaquetamiento"
      [] estado = "delivery"        -> "task_token_delivery"
      [] OTHER                      -> None

CampoDePaso(paso) ==
    CASE paso = "cocina-lista"          -> "task_token_cocina"
      [] paso = "empaquetamiento-listo" -> "task_token_empaquetamiento"
      [] paso = "delivery-entregado"    -> "task_token_delivery"
      [] OTHER                          -> None

EstadoDe(tabla, k) == ItemGet(tabla[k], "estado_pedido")

\* the order key an invocation named
ClaveDe(l) == <<l.tenant_id, l.id_pedido>>

\* the invocation l gave a tenant_id and an order id
Completa(l) == l.dict /\ l.tenant_id # None /\ l.id_pedido # None

\* the invocation l is a call of a transition handler for an existing order
SobrePedido(l, tabla) == l.op \in Transiciones /\ Completa(l) /\ ClaveDe(l) \in DOMAIN tabla

\* C1: a transition handler called for an existing order that is in the
\* handler's expected prior state returns 200 and leaves the order in the
\* documented next state.
C1_ValidTransitionAdvances ==
    [][ (SobrePedido(llamada', pedidos)
            /\ EstadoDe(pedidos, ClaveDe(llamada')) = EstadoEsperado(llamada'.op))
        => /\ llamada'.statusCode = 200
           /\ ClaveDe(llamada') \in DOMAIN pedidos'
           /\ EstadoDe(pedidos', ClaveDe(llamada'))
                = Sucesor(EstadoEsperado(llamada'.op)) ]_vars

\* C1 witness: the last of the four handlers has answered 200 for an order
\* that is now entregado, so all four transitions were made
C1_Witness ==
    /\ llamada.op = "delivery_a_entregado"
    /\ llamada.statusCode = 200
    /\ EstadoDe(pedidos, ClaveDe(llamada)) = "entregado"

\* C2: a transition handler called for an existing order that is not in the
\* handler's expected prior state returns 400 and writes nothing: the four
\* tables are unchanged.
C2_WrongStateRejected ==
    [][ (SobrePedido(llamada', pedidos)
            /\ EstadoDe(pedidos, ClaveDe(llamada')) # EstadoEsperado(llamada'.op))
        => /\ llamada'.statusCode = 400
           /\ llamada'.mensaje = MsgEstado
           /\ tablas' = tablas ]_vars

\* C2 witness: a handler has refused an order that is past its stage, holds a
\* token and has a stage record
C2_Witness ==
    /\ SobrePedido(llamada, pedidos)
    /\ llamada.statusCode = 400
    /\ llamada.mensaje = MsgEstado
    /\ llamada.op = "pagado_a_cocina"
    /\ EstadoDe(pedidos, ClaveDe(llamada)) = "empaquetamiento"
    /\ "task_token_cocina" \in DOMAIN pedidos[ClaveDe(llamada)]
    /\ DOMAIN despachador # {}

\* C3: a transition handler called for an order that does not exist returns
\* 404, one called without tenant_id or without the order id returns 400
\* without reading the store; in both cases the four tables are unchanged.
C3_MissingOrUnknownOrder ==
    [][ (llamada'.op \in Transiciones /\ llamada'.dict)
        => /\ (~Completa(llamada'))
                => /\ llamada'.statusCode = 400
                   /\ llamada'.lecturas = 0
                   /\ tablas' = tablas
           /\ (/\ Completa(llamada')
               /\ "<otro>" \notin {llamada'.tenant_id, llamada'.id_pedido}
               /\ ClaveDe(llamada') \notin DOMAIN pedidos)
                => /\ llamada'.statusCode = 404
                   /\ tablas' = tablas ]_vars

\* C3 witness: a handler has answered 404 for an order id that no order of
\* the tenant has, while stage records of another order exist
C3_Witness ==
    /\ llamada.op \in Transiciones
    /\ Completa(llamada)
    /\ ClaveDe(llamada) \notin DOMAIN pedidos
    /\ llamada.statusCode = 404
    /\ DOMAIN cocina # {}

\* C4: every change of an order's estado_pedido moves it to its immediate
\* successor; an order that is entregado never changes again, and every
\* transition handler called for it returns 400; no order is deleted.
C4_LinearNoSkipNoRollback ==
    [][ /\ DOMAIN pedidos \subseteq DOMAIN pedidos'
        /\ \A k \in DOMAIN pedidos :
              EstadoDe(pedidos', k) # EstadoDe(pedidos, k)
                  => EstadoDe(pedidos', k) = Sucesor(EstadoDe(pedidos, k))
        /\ (SobrePedido(llamada', pedidos)
                /\ EstadoDe(pedidos, ClaveDe(llamada')) = "entregado")
              => llamada'.statusCode = 400 ]_vars

\* C4 witness: a transition handler has answered 400 for an order that is
\* entregado
C4_Witness ==
    /\ SobrePedido(llamada, pedidos)
    /\ llamada.op = "delivery_a_entregado"
    /\ llamada.statusCode = 400
    /\ EstadoDe(pedidos, ClaveDe(llamada)) = "entregado"


\* the token fields present on an order
TokensPresentes(item) == CamposToken \cap DOMAIN item

\* C5: on every order at most one token field is present, and a present
\* token field is the one of the stage named by estado_pedido.
C5_AtMostOneTokenOfCurrentStage ==
    \A k \in DOMAIN pedidos :
        /\ Cardinality(TokensPresentes(pedidos[k])) <= 1
        /\ TokensPresentes(pedidos[k]) \subseteq {CampoDeEstado(EstadoDe(pedidos, k))}

\* the invocation l is a ConfirmStep call for an existing order with one of
\* the three recognized values of paso
ConfirmaPedido(l, tabla) ==
    /\ l.op = "confirmar_paso"
    /\ Completa(l)
    /\ ClaveDe(l) \in DOMAIN tabla
    /\ l.paso \in Pasos

\* C6: ConfirmStep for an existing order whose token field for the paso is
\* present sends exactly the stored token, once, removes that field alone and
\* returns 200, leaving the other orders and the stage records unchanged; a
\* second ConfirmStep with the same paso returns 400 and sends nothing.
C6_ConfirmSignalsOnceAndRemoves ==
    [][ /\ (ConfirmaPedido(llamada', pedidos)
              /\ CampoDePaso(llamada'.paso) \in DOMAIN pedidos[ClaveDe(llamada')])
            => LET k     == ClaveDe(llamada')
                   campo == CampoDePaso(llamada'.paso)
               IN  /\ llamada'.senales = <<pedidos[k][campo]>>
                   /\ llamada'.statusCode = 200
                   /\ pedidos' = [pedidos EXCEPT ![k] = Quitar(pedidos[k], campo)]
                   /\ <<cocina, despachador, delivery>>' = <<cocina, despachador, delivery>>
        /\ (/\ llamada.op = "confirmar_paso"
            /\ llamada.statusCode = 200
            /\ llamada'.op = "confirmar_paso"
            /\ llamada'.dict
            /\ ClaveDe(llamada') = ClaveDe(llamada)
            /\ llamada'.paso = llamada.paso)
            => /\ llamada'.statusCode = 400
               /\ llamada'.senales = <<>>
               /\ tablas' = tablas ]_vars

\* C6 witness: ConfirmStep has sent the stored token of the kitchen stage and
\* removed its field while the field of another stage stays on the order
C6_Witness ==
    /\ ConfirmaPedido(llamada, pedidos)
    /\ llamada.paso = "cocina-lista"
    /\ llamada.statusCode = 200
    /\ llamada.senales = <<"tk1">>
    /\ TokensPresentes(pedidos[ClaveDe(llamada)]) = {"task_token_empaquetamiento"}

\* C7: ConfirmStep rejects a missing tenant_id, order id or paso with 400,
\* then a non-existent order with 404, then an unrecognized paso with 400,
\* then an absent token field with 400; a rejected call sends nothing to the
\* orchestrator and writes nothing.
C7_ConfirmRejectionOrder ==
    [][ (/\ llamada'.op = "confirmar_paso"
         /\ llamada'.dict
         /\ "<otro>" \notin {llamada'.tenant_id, llamada'.id_pedido})
        => LET l      == llamada'
               falta  == ~Completa(l) \/ l.paso = None
               existe == ClaveDe(l) \in DOMAIN pedidos
               valido == l.paso \in Pasos
           IN  /\ falta => (l.statusCode = 400 /\ l.mensaje = MsgFaltanPaso
                                /\ l.lecturas = 0)
               /\ (~falta /\ ~existe) => (l.statusCode = 404 /\ l.mensaje = MsgNoEncontrado)
               /\ (~falta /\ existe /\ ~valido)
                    => (l.statusCode = 400 /\ l.mensaje = MsgPasoNoSoportado)
               /\ (~falta /\ existe /\ valido
                        /\ CampoDePaso(l.paso) \notin DOMAIN pedidos[ClaveDe(l)])
                    => (l.statusCode = 400 /\ l.mensaje = MsgSinToken)
               /\ l.statusCode # 200 => (l.senales = <<>> /\ tablas' = tablas) ]_vars

\* C7 witness: ConfirmStep has answered 404 to a request whose order does not
\* exist and whose paso is not recognized either
C7_Witness ==
    /\ llamada.op = "confirmar_paso"
    /\ Completa(llamada)
    /\ ClaveDe(llamada) \notin DOMAIN pedidos
    /\ llamada.paso = "foo"
    /\ llamada.statusCode = 404
    /\ \E k \in DOMAIN pedidos : TokensPresentes(pedidos[k]) # {}

\* C8: a transition handler that answers 200 to a request carrying a
\* taskToken leaves that token under its own stage field and the other token
\* fields as they were (delivery -> entregado stores none); without a
\* taskToken it leaves every token field as it was; ConfirmStep sends exactly
\* the value held by the field of its paso.
C8_TokenStoredAndPassedUnmodified ==
    [][ /\ (llamada'.op \in Transiciones /\ llamada'.statusCode = 200)
            => LET k     == ClaveDe(llamada')
                   campo == IF llamada'.taskToken = None THEN None
                            ELSE CampoTokenDe(llamada'.op)
               IN  /\ campo # None => ItemGet(pedidos'[k], campo) = llamada'.taskToken
                   /\ \A c \in CamposToken \ {campo} :
                        ItemGet(pedidos'[k], c) = ItemGet(pedidos[k], c)
        /\ (llamada'.op = "confirmar_paso" /\ llamada'.statusCode = 200)
            => llamada'.senales
                 = <<ItemGet(pedidos[ClaveDe(llamada')], CampoDePaso(llamada'.paso))>> ]_vars

\* C8 witness: ConfirmStep has sent tk2, the token the second handler stored,
\* for an order that also holds tk1 stored by the first handler
C8_Witness ==
    /\ llamada.op = "confirmar_paso"
    /\ llamada.statusCode = 200
    /\ llamada.paso = "empaquetamiento-listo"
    /\ llamada.senales = <<"tk2">>
    /\ ItemGet(pedidos[ClaveDe(llamada)], "task_token_cocina") = "tk1"

\* a stage record of the order is open: it exists, is in progress and has a
\* null end time
Abierta(tabla, id_pedido) ==
    /\ id_pedido \in DOMAIN tabla
    /\ ItemGet(tabla[id_pedido], "status") = "cocinando"
    /\ ItemGet(tabla[id_pedido], "hora_fin") = None

\* a stage record of the order is closed: done, with an end time
Cerrada(tabla, id_pedido) ==
    /\ id_pedido \in DOMAIN tabla
    /\ ItemGet(tabla[id_pedido], "status") = "terminado"
    /\ ItemGet(tabla[id_pedido], "hora_fin") # None

StatusDelivery(id_pedido) ==
    IF id_pedido \in DOMAIN delivery THEN ItemGet(delivery[id_pedido], "status") ELSE None

\* C9: the stage records of every order follow its estado_pedido: the Kitchen
\* record is open while cocina and closed from empaquetamiento on, the
\* Packaging record is open while empaquetamiento and closed from delivery
\* on, the Delivery record is 'en camino' exactly while delivery and
\* 'cumplido' exactly when entregado.
C9_StageRecordsFollowState ==
    \A k \in DOMAIN pedidos :
        LET estado == EstadoDe(pedidos, k)
            id     == k[2]
        IN  /\ estado = "cocina" => Abierta(cocina, id)
            /\ estado \in {"empaquetamiento", "delivery", "entregado"} => Cerrada(cocina, id)
            /\ estado = "empaquetamiento" => Abierta(despachador, id)
            /\ estado \in {"delivery", "entregado"} => Cerrada(despachador, id)
            /\ (StatusDelivery(id) = "en camino") <=> (estado = "delivery")
            /\ (StatusDelivery(id) = "cumplido") <=> (estado = "entregado")

\* C9 with a single order per order id: the stage records follow the state
\* of the order when no other tenant has an order with the same id
StageRecordsFollowStateUnPedido ==
    Cardinality(DOMAIN pedidos) = 1 => C9_StageRecordsFollowState

\* evento is a gateway-style envelope (a string body, no taskToken with input)
\* whose body parses to a JSON object
EsGatewayConObjeto(e) ==
    /\ "body" \in DOMAIN e
    /\ IsStr(e["body"])
    /\ ~("taskToken" \in DOMAIN e /\ "input" \in DOMAIN e)
    /\ JsonLoads(e["body"]).t = "dict"

\* the pathParameters of e when they are a mapping, else no entries
RutaDe(e) ==
    IF "pathParameters" \in DOMAIN e /\ e["pathParameters"].t = "dict"
    THEN e["pathParameters"].d ELSE Vacio

\* C10: parse_event on a gateway-style envelope whose body parses to a JSON
\* object returns a mapping whose keys are those of the body and of
\* pathParameters; a key of the body holds the body's value, a key of
\* pathParameters alone holds the path value.
C10_BodyWinsOverPath ==
    (normalizado # Pendiente /\ EsGatewayConObjeto(evento)) =>
        LET b  == JsonLoads(evento["body"]).d
            pp == RutaDe(evento)
        IN  /\ normalizado.t = "dict"
            /\ DOMAIN normalizado.d = DOMAIN b \cup DOMAIN pp
            /\ \A k \in DOMAIN b : normalizado.d[k] = b[k]
            /\ \A k \in DOMAIN pp \ DOMAIN b : normalizado.d[k] = pp[k]

\* C10 witness: a normalized gateway envelope with a key in both the body and
\* pathParameters under different values, and a key in pathParameters alone
C10_Witness ==
    /\ normalizado # Pendiente
    /\ EsGatewayConObjeto(evento)
    /\ LET b  == JsonLoads(evento["body"]).d
           pp == RutaDe(evento)
       IN  /\ \E k \in DOMAIN b \cap DOMAIN pp : b[k] # pp[k] /\ b[k] = PyNone
           /\ \E k \in DOMAIN pp : k \notin DOMAIN b
           /\ \E k \in DOMAIN b : k \notin DOMAIN pp

\* C11: parse_event never raises: applied to any request envelope, whatever
\* its body and pathParameters hold, it returns a mapping.
C11_NormalizerNeverRaises ==
    normalizado # Pendiente => normalizado.t = "dict"

\* the stage records a lookup by the order id of k finds
EtapasDe(db, k) ==
    [n \in {"cocina", "despachador", "delivery"} |->
        IF HayItem(db[n], k[2]) THEN db[n][k[2]] ELSE Vacio]

\* C18: a call made for an order leaves the Order record and the Kitchen,
\* Packaging and Delivery records of every other order as they were, an
\* order of another tenant with the same order id included.
C18_OtherOrdersUntouched ==
    [][ Completa(llamada')
        => \A k \in DOMAIN pedidos \ {ClaveDe(llamada')} :
            /\ k \in DOMAIN pedidos'
            /\ pedidos'[k] = pedidos[k]
            /\ EtapasDe(DB', k) = EtapasDe(DB, k) ]_vars

\* the invocation in slot h passed its validation
Admitida(h) == hilos[h].pc \in {"escribiendo", "fin"} /\ hilos[h].key # <<None, None>>

\* the invocation in slot h returned 200
Respondio200(h) == hilos[h].pc = "fin" /\ hilos[h].statusCode = 200

\* C12: when two invocations of the same transition handler on the same
\* order have both passed the Guard, neither is stopped afterwards: each one
\* that has finished made every write of its sequence and returned 200.
C12_DoubleTransition ==
    \A g \in Hilos, h \in Hilos :
        (/\ g # h
         /\ Admitida(g) /\ Admitida(h)
         /\ hilos[g].op \in Handlers /\ hilos[h].op = hilos[g].op
         /\ hilos[h].key = hilos[g].key)
        => (hilos[h].pc = "fin"
                => /\ hilos[h].statusCode = 200
                   /\ hilos[h].hecho = Len(PasosDe(hilos[h].op)))

\* C12 witness: the only two invocations ever started were of
\* delivery_a_entregado on the same order, and both have returned 200
C12_Witness ==
    /\ Respondio200(1) /\ Respondio200(2)
    /\ hilos[1].op = "delivery_a_entregado" /\ hilos[2].op = "delivery_a_entregado"
    /\ hilos[1].key = hilos[2].key
    /\ \A h \in Hilos \ {1, 2} : hilos[h].pc = "libre"

\* C13: with the store operations of concurrent invocations interleaved,
\* every step leaves estado_pedido of every order where it was or moves it
\* to the immediate successor state.
C13_LinearUnderInterleaving ==
    [][ \A k \in DOMAIN pedidos :
            /\ k \in DOMAIN pedidos'
            /\ EstadoDe(pedidos', k) \in
                 {EstadoDe(pedidos, k), Sucesor(EstadoDe(pedidos, k))} ]_vars

\* the transition-handler invocations that stored a task token
Almacenaron ==
    {h \in Hilos : /\ hilos[h].op \in Handlers
                   /\ Respondio200(h)
                   /\ campo_token(hilos[h].op) # None
                   /\ Truthy(Get(parse_event(hilos[h].e).d, "taskToken"))}

\* C15: when a task token was stored once, the concurrent confirmar_paso
\* calls pass it to send_task_success once at most, and one of them at most
\* gets past the check of the token field.
C15_SignaledOnce ==
    Cardinality(Almacenaron) <= 1
        => /\ Len(enviados) <= 1
           /\ Cardinality({h \in Hilos : hilos[h].op = "confirmar_paso"
                                         /\ Admitida(h)}) <= 1

\* the invocation in slot h passed its validation and ended on a failed call
Fallida(h) == hilos[h].pc = "fin" /\ Admitida(h) /\ hilos[h].statusCode = 0

\* the invocation in slot h is the last one started
Ultima(h) ==
    /\ hilos[h].pc # "libre"
    /\ \A g \in Hilos : g > h => hilos[g].pc = "libre"

\* the table a store call writes
TablaDe(w) ==
    CASE w \in {"put_cocina", "update_cocina"}           -> "cocina"
      [] w \in {"put_despachador", "update_despachador"} -> "despachador"
      [] w \in {"put_delivery", "update_delivery"}       -> "delivery"
      [] OTHER                                           -> "pedidos"

\* what the first n store calls of handler op leave of the stage records of
\* the order: the prior stage record closed, then the new one created
EtapasHechas(op, n, id_pedido) ==
    CASE op = "pagado_a_cocina" ->
            n >= 1 => Abierta(cocina, id_pedido)
      [] op = "cocina_a_empaquetamiento" ->
            /\ n >= 1 => Cerrada(cocina, id_pedido)
            /\ n >= 2 => Abierta(despachador, id_pedido)
      [] op = "empaquetamiento_a_delivery" ->
            /\ n >= 1 => Cerrada(despachador, id_pedido)
            /\ n >= 2 => StatusDelivery(id_pedido) = "en camino"
      [] OTHER ->
            n >= 1 => StatusDelivery(id_pedido) = "cumplido"

\* C14: right after a transition handler ended on a failed store call, the
\* writes it had made are in place and the later ones were not made: the
\* order record, estado_pedido included, is as before the call, the stage
\* records written so far are closed or created, every table the made calls
\* did not write is as before the call, and so is every table when the first
\* call failed.
C14_PartialWritesStay ==
    \A h \in Hilos :
        (Ultima(h) /\ Fallida(h) /\ hilos[h].op \in Handlers)
        => LET hi == hilos[h]
               escritas == {TablaDe(PasosDe(hi.op)[i]) : i \in 1..hi.hecho}
           IN  /\ hi.hecho < Len(PasosDe(hi.op))
               /\ pedidos = hi.antes.pedidos
               /\ EstadoDe(pedidos, hi.key) = EstadoEsperado(hi.op)
               /\ EtapasHechas(hi.op, hi.hecho, hi.key[2])
               /\ \A n \in DOMAIN DB \ escritas : DB[n] = hi.antes[n]
               /\ hi.hecho = 0 => DB = hi.antes

\* C14 witness: cocina_a_empaquetamiento has just failed on its order update,
\* after closing the Kitchen record and creating the Packaging record
C14_Witness ==
    \E h \in Hilos :
        /\ Ultima(h) /\ Fallida(h)
        /\ hilos[h].op = "cocina_a_empaquetamiento"
        /\ hilos[h].hecho = 2
        /\ Cerrada(cocina, hilos[h].key[2])
        /\ Abierta(despachador, hilos[h].key[2])
        /\ despachador # hilos[h].antes.despachador

\* the tables and response of one invocation of handler op that runs alone
\* and without failure
HandlerSolo(op, db, e, ahora) ==
    CASE op = "pagado_a_cocina"            -> pagado_a_cocina(db, e, ahora, ahora)
      [] op = "cocina_a_empaquetamiento"   -> cocina_a_empaquetamiento(db, e, ahora, ahora)
      [] op = "empaquetamiento_a_delivery" -> empaquetamiento_a_delivery(db, e, ahora, ahora)
      [] OTHER                             -> delivery_a_entregado(db, e, ahora, ahora)

\* an item with its generated timestamps blanked
SinHorasItem(item) ==
    [a \in DOMAIN item |->
        IF a \in {"hora_comienzo", "hora_fin"} /\ item[a] # None
        THEN "<hora>" ELSE item[a]]

\* the four tables with the generated timestamps blanked
SinHoras(db) ==
    [n \in DOMAIN db |->
        IF n \in {"cocina", "despachador"}
        THEN [k \in DOMAIN db[n] |-> SinHorasItem(db[n][k])]
        ELSE db[n]]

\* the invocation in slot h is the retry, with the same request, of the
\* invocation before it, which failed after its stage writes and before or
\* on its order update; no call of the retry failed
Reintento(h) ==
    /\ h - 1 \in Hilos
    /\ Fallida(h - 1)
    /\ hilos[h - 1].op \in Handlers
    /\ hilos[h - 1].hecho = Len(PasosDe(hilos[h - 1].op)) - 1
    /\ hilos[h].pc = "fin"
    /\ ~Fallida(h)
    /\ hilos[h].op = hilos[h - 1].op
    /\ hilos[h].e = hilos[h - 1].e

\* C19: the retry of a transition handler that failed between its stage
\* writes and its order update returns 200 and leaves the four tables as
\* one failure-free call from the same start would, up to the values of the
\* generated timestamps.
C19_RetryAfterFailure ==
    \A h \in Hilos :
        (Ultima(h) /\ Reintento(h))
        => /\ hilos[h].statusCode = 200
           /\ hilos[h].hecho = Len(PasosDe(hilos[h].op))
           /\ SinHoras(DB) =
                SinHoras(HandlerSolo(hilos[h].op, hilos[h - 1].antes,
                                     hilos[h].e, "ts1").db)

\* C19 witness: cocina_a_empaquetamiento, given a task token and an employee
\* id, failed on its order update and its retry has finished, with another
\* timestamp than a failure-free call at ts1 leaves
C19_Witness ==
    \E h \in Hilos :
        /\ Ultima(h) /\ Reintento(h)
        /\ hilos[h].op = "cocina_a_empaquetamiento"
        /\ hilos[h].e = Campos("t1", "o1", Ausente, "tk1", "todo")
        /\ DB # HandlerSolo(hilos[h].op, hilos[h - 1].antes, hilos[h].e, "ts1").db
        /\ DB # hilos[h - 1].antes

\* the order of the orchestrated flow
PedidoOrq == <<"t1", "o1">>

\* the end of the flow: the order is entregado with no token field, the
\* Kitchen and Packaging records are done and the Delivery record is cumplido
FlujoCumplido ==
    /\ EstadoDe(pedidos, PedidoOrq) = "entregado"
    /\ TokensPresentes(pedidos[PedidoOrq]) = {}
    /\ Cerrada(cocina, PedidoOrq[2])
    /\ Cerrada(despachador, PedidoOrq[2])
    /\ StatusDelivery(PedidoOrq[2]) = "cumplido"

\* C16: in the orchestrated flow without failures, under weak fairness of
\* the orchestrator, handler and confirmar_paso steps, the order reaches the
\* end of the flow and stays there.
C16_FlowReachesEntregado == <>[]FlujoCumplido

\* C16 witness: the execution has ended, all three tokens were signalled in
\* the order they were issued, and the flow is at its end
C16_Witness ==
    /\ orquestador.fase = "terminado"
    /\ enviados = <<"tk1", "tk2", "tk3">>
    /\ FlujoCumplido

\* C17: in the orchestrated flow, with send_task_success and the removal of
\* the token field as separate steps, every token field present on the
\* order is the one of the stage estado_pedido names, so no two are present.
C17_TokenRemovedBeforeNext ==
    \A c \in TokensPresentes(pedidos[PedidoOrq]) :
        c = CampoDeEstado(EstadoDe(pedidos, PedidoOrq))

====
